---- MODULE Spec2Model ----
(***************************************************************************)
(* Registration and accessor glue of gdnative/src/init.rs.                 *)
(*                                                                         *)
(* Text is a sequence of one-character strings; NUL is the zero byte.      *)
(* f64 values are decimal numbers with one fractional digit, held as an    *)
(* integer number of tenths (15 is 1.5, -5 is -0.5, 1000 is 100.0).         *)
(* Addresses are naturals, NULL is 0; Option<fn> is "None" or the name of  *)
(* the function.                                                           *)
(***************************************************************************)
EXTENDS Integers, Sequences, FiniteSets, TLC

VARIABLES
    hostLog,     \* requests received by the host's registration entry points, in order
    builders,    \* the ClassBuilder values add_class has returned
    hist,        \* the registration operations performed, with their arguments and outcome
    boxes,       \* the heap of boxed closures: boxes[a] is the allocation at address a
    cellVal,     \* the value of the instance inside the per-instance RefCell<C>
    cellBorrow,  \* the RefCell's borrow flag: UNUSED or WRITING
    frames,      \* frames[t]: the stack of accessor invocations in flight on host thread t
    errLog,      \* number of entries written through godot_error!
    crashed,     \* a panic ended the process
    torn,        \* the bundles whose free function the host has called (teardown)
    nInvokes,    \* accessor invocations started so far
    lastRet,     \* the value last returned to the host by a getter
    lastCall,    \* the function pointer the host called last, and its data pointer
    done         \* the accessor invocation that returned last

vars == <<hostLog, builders, hist, boxes, cellVal, cellBorrow, frames, errLog,
          crashed, torn, nInvokes, lastRet, lastCall, done>>

regVars == <<hostLog, builders, hist, boxes>>
runVars == <<cellVal, cellBorrow, frames, errLog, torn, nInvokes, lastRet, lastCall, done>>

----------------------------------------------------------------------------
(* Bounds *)

MaxOps == 3
MaxProps == 1
MaxAccProps == 2
MaxInvokes == 2
MaxDepth == 2

----------------------------------------------------------------------------
(* Text, CString and the host string type *)

NUL == "NUL"
NULL == 0

HasNul(s) == \E i \in 1..Len(s) : s[i] = NUL

\* CString::new(s): Err when s holds an interior zero byte, else s with the
\* terminator appended.
CString_new(s) ==
    IF HasNul(s) THEN [ok |-> FALSE, bytes |-> <<>>]
    ELSE [ok |-> TRUE, bytes |-> Append(s, NUL)]

\* What the host reads through a *const c_char: the bytes before the first NUL.
RECURSIVE HostReadCStr(_)
HostReadCStr(bytes) ==
    IF bytes = <<>> \/ Head(bytes) = NUL THEN <<>>
    ELSE <<Head(bytes)>> \o HostReadCStr(Tail(bytes))

\* GodotString::from_str: a host string holding the given text (infallible:
\* its result is used without unwrap).
GodotString_from_str(text) == [null |-> FALSE, chars |-> text]

\* GodotString::default(): the empty host string.
GodotString_default == [null |-> FALSE, chars |-> <<>>]

----------------------------------------------------------------------------
(* Formatting of f64 with "{}" *)

Digit(d) == CASE d = 0 -> "0" [] d = 1 -> "1" [] d = 2 -> "2" [] d = 3 -> "3"
              [] d = 4 -> "4" [] d = 5 -> "5" [] d = 6 -> "6" [] d = 7 -> "7"
              [] d = 8 -> "8" [] d = 9 -> "9"

RECURSIVE FmtNat(_)
FmtNat(n) == IF n < 10 THEN <<Digit(n)>> ELSE FmtNat(n \div 10) \o <<Digit(n % 10)>>

\* Display of the f64 whose value is tenths/10.
FmtF64(tenths) ==
    LET a == IF tenths < 0 THEN -tenths ELSE tenths
        sign == IF tenths < 0 THEN <<"-">> ELSE <<>>
        frac == IF a % 10 = 0 THEN <<>> ELSE <<".", Digit(a % 10)>>
    IN  sign \o FmtNat(a \div 10) \o frac

\* [&str]::join(",")
RECURSIVE Join(_)
Join(values) ==
    IF values = <<>> THEN <<>>
    ELSE IF Len(values) = 1 THEN values[1]
    ELSE values[1] \o <<",">> \o Join(Tail(values))

----------------------------------------------------------------------------
(* PropertyHint *)

SliderSuffix == <<",", "s", "l", "i", "d", "e", "r">>

\* The match with the slider suffix on the wrong arm.
hint_text_slider_swapped(hint) ==
    CASE hint.kind = "Range" ->
            [some |-> TRUE,
             text |-> FmtF64(hint.start) \o <<",">> \o FmtF64(hint.end) \o <<",">>
                      \o FmtF64(hint.step)
                      \o (IF hint.slider THEN <<>> ELSE SliderSuffix)]
      [] hint.kind \in {"Enum", "Flags"} ->
            [some |-> TRUE, text |-> Join(hint.values)]
      [] hint.kind \in {"NodePathToEditedNode", "None"} ->
            [some |-> FALSE, text |-> <<>>]

\* The match of add_property on property.hint: Option<String>.
hint_text(hint) ==
    CASE hint.kind = "Range" ->
            [some |-> TRUE,
             text |-> FmtF64(hint.start) \o <<",">> \o FmtF64(hint.end) \o <<",">>
                      \o FmtF64(hint.step)
                      \o (IF hint.slider THEN SliderSuffix ELSE <<>>)]
      [] hint.kind \in {"Enum", "Flags"} ->
            [some |-> TRUE, text |-> Join(hint.values)]
      [] hint.kind \in {"NodePathToEditedNode", "None"} ->
            [some |-> FALSE, text |-> <<>>]

hint_string(hint) ==
    LET t == hint_text(hint)
    IN  IF t.some THEN GodotString_from_str(t.text) ELSE GodotString_default

PropertyHint_to_sys(hint) ==
    CASE hint.kind = "None" -> "GODOT_PROPERTY_HINT_NONE"
      [] hint.kind = "Range" -> "GODOT_PROPERTY_HINT_RANGE"
      [] hint.kind = "Enum" -> "GODOT_PROPERTY_HINT_ENUM"
      [] hint.kind = "Flags" -> "GODOT_PROPERTY_HINT_FLAGS"
      [] hint.kind = "NodePathToEditedNode" ->
            "GODOT_PROPERTY_HINT_NODE_PATH_TO_EDITED_NODE"

----------------------------------------------------------------------------
(* PropertyUsage: the bitflags! block.  The GODOT_PROPERTY_USAGE_* values are
   the host's. *)

STORAGE == 1
EDITOR == 2
NETWORK == 4
EDITOR_HELPER == 8
CHECKABLE == 16
CHECKED == 32
INTERNATIONALIZED == 64
GROUP == 128
CATEGORY == 256
STORE_IF_NONZERO == 512
STORE_IF_NONONE == 1024
NO_INSTANCE_STATE == 2048
RESTART_IF_CHANGED == 4096
SCRIPT_VARIABLE == 8192
STORE_IF_NULL == 16384
ANIMATE_AS_TRIGGER == 32768
UPDATE_ALL_IF_MODIFIED == 65536

UsageWidth == 32

\* The low n bits of x.
RECURSIVE LowBits(_, _)
LowBits(x, n) == IF n = 0 \/ x = 0 THEN 0 ELSE (x % 2) + 2 * LowBits(x \div 2, n - 1)

\* a | b on u32, bit by bit from the least significant one.
RECURSIVE BitOr(_, _)
BitOr(a, b) ==
    IF a = 0 THEN b
    ELSE IF b = 0 THEN a
    ELSE (IF a % 2 = 1 \/ b % 2 = 1 THEN 1 ELSE 0) + 2 * BitOr(a \div 2, b \div 2)

DEFAULT == BitOr(BitOr(STORAGE, EDITOR), NETWORK)
DEFAULT_INTL == BitOr(DEFAULT, INTERNATIONALIZED)
NOEDITOR == BitOr(STORAGE, NETWORK)

\* The named flags, by name.
UsageBits(name) ==
    CASE name = "STORAGE" -> STORAGE
      [] name = "EDITOR" -> EDITOR
      [] name = "NETWORK" -> NETWORK
      [] name = "EDITOR_HELPER" -> EDITOR_HELPER
      [] name = "CHECKABLE" -> CHECKABLE
      [] name = "CHECKED" -> CHECKED
      [] name = "INTERNATIONALIZED" -> INTERNATIONALIZED
      [] name = "GROUP" -> GROUP
      [] name = "CATEGORY" -> CATEGORY
      [] name = "STORE_IF_NONZERO" -> STORE_IF_NONZERO
      [] name = "STORE_IF_NONONE" -> STORE_IF_NONONE
      [] name = "NO_INSTANCE_STATE" -> NO_INSTANCE_STATE
      [] name = "RESTART_IF_CHANGED" -> RESTART_IF_CHANGED
      [] name = "SCRIPT_VARIABLE" -> SCRIPT_VARIABLE
      [] name = "STORE_IF_NULL" -> STORE_IF_NULL
      [] name = "ANIMATE_AS_TRIGGER" -> ANIMATE_AS_TRIGGER
      [] name = "UPDATE_ALL_IF_MODIFIED" -> UPDATE_ALL_IF_MODIFIED
      [] name = "DEFAULT" -> DEFAULT
      [] name = "DEFAULT_INTL" -> DEFAULT_INTL
      [] name = "NOEDITOR" -> NOEDITOR

\* A union computed by addition.
PropertyUsage_union_by_sum(a, b) == a + b

\* PropertyUsage::A | PropertyUsage::B
PropertyUsage_union(a, b) == BitOr(a, b)

\* mem::transmute of the u32 bits to the host's flags type.
PropertyUsage_to_sys(usage) == LowBits(usage, UsageWidth)

----------------------------------------------------------------------------
(* Variant and GodotType (the conversions the accessors and add_property use) *)

\* T::to_variant: the host value with the type tag of the Rust type.
to_variant(v) ==
    [type |-> CASE v.rust = "i64" -> "GODOT_VARIANT_TYPE_INT"
                [] v.rust = "bool" -> "GODOT_VARIANT_TYPE_BOOL"
                [] v.rust = "String" -> "GODOT_VARIANT_TYPE_STRING",
     value |-> v.v]

\* Variant::new(): the nil host value.
Variant_new == [type |-> "GODOT_VARIANT_TYPE_NIL", value |-> 0]

\* i64::from_variant: Some(value) for an integer host value, else None.
from_variant(variant) ==
    IF variant.type = "GODOT_VARIANT_TYPE_INT"
    THEN [some |-> TRUE, v |-> variant.value]
    ELSE [some |-> FALSE, v |-> 0]

----------------------------------------------------------------------------
(* PropertySetter / PropertyGetter: as_godot_function *)

\* Box::new followed by Box::into_raw: a fresh allocation, its address.
Box_new(bx, closure) == Append(bx, [closure |-> closure, frees |-> 0])

\* impl PropertySetter for (): the default (null) bundle with the empty stubs.
unit_setter_as_godot_function ==
    [func |-> "empty_setter", method_data |-> NULL, free_func |-> "empty_free_func"]

\* impl PropertyGetter for ()
unit_getter_as_godot_function ==
    [func |-> "empty_getter", method_data |-> NULL, free_func |-> "empty_free_func"]

\* The closure bundle with the empty free function (the box is never dropped).
closure_setter_leaky(bx, closure) ==
    [bundle |-> [func |-> "setter_invoke", method_data |-> Len(bx) + 1,
                 free_func |-> "empty_free_func"],
     boxes |-> Box_new(bx, closure)]

\* impl PropertySetter for F: the bundle for a closure boxed in bx.
closure_setter_as_godot_function(bx, closure) ==
    [bundle |-> [func |-> "setter_invoke", method_data |-> Len(bx) + 1,
                 free_func |-> "setter_free_func"],
     boxes |-> Box_new(bx, closure)]

\* impl PropertyGetter for F
closure_getter_as_godot_function(bx, closure) ==
    [bundle |-> [func |-> "getter_invoke", method_data |-> Len(bx) + 1,
                 free_func |-> "getter_free_func"],
     boxes |-> Box_new(bx, closure)]

\* An empty setter that stores the value it is given.
empty_setter_stores(cell, val) == val.value

\* extern "C" fn empty_setter: the instance afterwards.
empty_setter(cell, val) == cell

\* extern "C" fn empty_getter: the value returned.
empty_getter == Variant_new

\* extern "C" fn empty_free_func: the heap afterwards.
empty_free_func(bx, data) == bx

\* free_func::<F>: drop(Box::from_raw(data)).
closure_free_func(bx, data) == [bx EXCEPT ![data].frees = @ + 1]

\* The host calling a bundle's free function on its data pointer.
CallFree(bx, bundle) ==
    IF bundle.free_func = "empty_free_func"
    THEN empty_free_func(bx, bundle.method_data)
    ELSE closure_free_func(bx, bundle.method_data)

\* The user closures: set_x stores the value, get_x reads it.
ApplySetter(closure, cell, v) == IF closure = "set_x" THEN v ELSE cell
ApplyGetter(closure, cell) == [rust |-> "i64", v |-> cell]

setter_as_godot_function(bx, setter) ==
    IF setter.kind = "unit"
    THEN [bundle |-> unit_setter_as_godot_function, boxes |-> bx]
    ELSE closure_setter_as_godot_function(bx, setter.closure)

getter_as_godot_function(bx, getter) ==
    IF getter.kind = "unit"
    THEN [bundle |-> unit_getter_as_godot_function, boxes |-> bx]
    ELSE closure_getter_as_godot_function(bx, getter.closure)

----------------------------------------------------------------------------
(* Registration operations.  Each yields [panicked, log, boxes, builder]:
   whether an unwrap panicked, the host's log and the heap afterwards. *)

Outcome(panicked, log, bx) == [panicked |-> panicked, log |-> log, boxes |-> bx]

\* add_class returning its builder without the host call.
add_class_no_host_call(handle, desc, log, bx) ==
    LET class_name == CString_new(desc.name)
        base_name == CString_new(desc.base_class)
    IN  Outcome(~class_name.ok \/ ~base_name.ok, log, bx)

\* InitHandle::add_class
add_class(handle, desc, log, bx) ==
    LET class_name == CString_new(desc.name)
        base_name == CString_new(desc.base_class)
    IN  IF ~class_name.ok \/ ~base_name.ok THEN Outcome(TRUE, log, bx)
        ELSE Outcome(FALSE,
                 Append(log,
                     [entry |-> "register_class",
                      handle |-> handle,
                      class |-> HostReadCStr(class_name.bytes),
                      base |-> HostReadCStr(base_name.bytes),
                      create |-> [create_func |-> desc.constructor,
                                  method_data |-> NULL, free_func |-> "None"],
                      destroy |-> [destroy_func |-> desc.destructor,
                                   method_data |-> NULL, free_func |-> "None"]]),
                 bx)

\* The ClassBuilder add_class returns.
ClassBuilder(handle, desc) ==
    [init_handle |-> handle, class_name |-> CString_new(desc.name).bytes]

\* ClassBuilder::add_method_advanced
add_method_advanced(b, method, log, bx) ==
    LET method_name == CString_new(method.name)
    IN  IF ~method_name.ok THEN Outcome(TRUE, log, bx)
        ELSE Outcome(FALSE,
                 Append(log,
                     [entry |-> "register_method",
                      handle |-> b.init_handle,
                      class |-> HostReadCStr(b.class_name),
                      name |-> HostReadCStr(method_name.bytes),
                      attr |-> [rpc_type |-> "GODOT_METHOD_RPC_MODE_DISABLED"],
                      method |-> [method |-> method.method_ptr,
                                  method_data |-> method.method_data,
                                  free_func |-> method.free_func]]),
                 bx)

\* The ScriptMethod add_method builds.
SugarMethod(name, method) ==
    [name |-> name, method_ptr |-> method, rpc_mode |-> "Disabled",
     method_data |-> NULL, free_func |-> "None"]

\* add_method losing its function pointer on the way to add_method_advanced.
add_method_no_ptr(b, name, method, log, bx) ==
    add_method_advanced(b, [SugarMethod(name, method) EXCEPT !.method_ptr = "None"],
                        log, bx)

\* ClassBuilder::add_method
add_method(b, name, method, log, bx) ==
    add_method_advanced(b, SugarMethod(name, method), log, bx)

\* ClassBuilder::add_property
add_property(b, property, log, bx) ==
    LET hs == hint_string(property.hint)
        default == to_variant(property.default)
        ty == default.type
        attr == [rset_type |-> "GODOT_METHOD_RPC_MODE_DISABLED",
                 type_ |-> ty,
                 hint |-> PropertyHint_to_sys(property.hint),
                 hint_string |-> hs,
                 usage |-> PropertyUsage_to_sys(property.usage),
                 default_value |-> default]
        path == CString_new(property.name)
        set == setter_as_godot_function(bx, property.setter)
        get == getter_as_godot_function(set.boxes, property.getter)
    IN  IF ~path.ok THEN Outcome(TRUE, log, bx)
        ELSE Outcome(FALSE,
                 Append(log,
                     [entry |-> "register_property",
                      handle |-> b.init_handle,
                      class |-> HostReadCStr(b.class_name),
                      name |-> HostReadCStr(path.bytes),
                      attr |-> attr,
                      set |-> set.bundle,
                      get |-> get.bundle]),
                 get.boxes)

\* ClassBuilder::add_signal
add_signal(b, signal, log, bx) ==
    LET name == GodotString_from_str(signal.name)
    IN  Outcome(FALSE,
            Append(log,
                [entry |-> "register_signal",
                 handle |-> b.init_handle,
                 class |-> HostReadCStr(b.class_name),
                 signal |-> [name |-> name, num_args |-> 0, args |-> NULL,
                             num_default_args |-> 0, default_args |-> NULL]]),
            bx)

----------------------------------------------------------------------------
(* State after loading, and the registration steps *)

Threads == {"t1", "t2"}

\* One accessor invocation in flight: the stub's arguments, its position, the
\* flag value borrow_mut read, whether its RefMut is alive, and a record of
\* what it has done (closure calls, log entries, the instance and log at
\* acquisition).
Frame(kind, data, val) ==
    [kind |-> kind, data |-> data, val |-> val, pc |-> "borrow", seen |-> "UNUSED",
     holds |-> FALSE, calls |-> 0, logged |-> 0, entryVal |-> 0, ret |-> Variant_new,
     nested |-> FALSE]

NoFrame == [Frame("none", NULL, Variant_new) EXCEPT !.pc = "none"]

Init ==
    /\ hostLog = <<>>
    /\ builders = {}
    /\ hist = <<>>
    /\ boxes = <<>>
    /\ cellVal = 0
    /\ cellBorrow = "UNUSED"
    /\ frames = [t \in Threads |-> <<>>]
    /\ errLog = 0
    /\ crashed = FALSE
    /\ torn = {}
    /\ nInvokes = 0
    /\ lastRet = Variant_new
    /\ lastCall = [seq |-> 0, func |-> "None", data |-> NULL]
    /\ done = NoFrame

\* The record hist keeps of one operation: its arguments, whether it
\* panicked, and the place in hostLog of the request it made (0: none).
HistEntry(op, b, names, arg, o) ==
    [op |-> op, builder |-> b, names |-> names, arg |-> arg,
     panicked |-> o.panicked,
     at |-> IF Len(o.log) > Len(hostLog) THEN Len(o.log) ELSE 0]

Apply(o, entry) ==
    /\ hostLog' = o.log
    /\ boxes' = o.boxes
    /\ crashed' = o.panicked
    /\ hist' = Append(hist, entry)
    /\ UNCHANGED runVars

CanRegister == ~crashed /\ torn = {} /\ nInvokes = 0

AddClass(handle, desc) ==
    LET o == add_class(handle, desc, hostLog, boxes)
        b == ClassBuilder(handle, desc)
    IN  /\ CanRegister
        /\ builders' = IF o.panicked THEN builders ELSE builders \cup {b}
        /\ Apply(o, HistEntry("add_class", b, {desc.name, desc.base_class}, desc, o))

AddMethod(b, name, method) ==
    LET o == add_method(b, name, method, hostLog, boxes)
    IN  /\ CanRegister
        /\ b \in builders
        /\ UNCHANGED builders
        /\ Apply(o, HistEntry("add_method", b, {name},
                              [name |-> name, method |-> method], o))

AddMethodAdvanced(b, method) ==
    LET o == add_method_advanced(b, method, hostLog, boxes)
    IN  /\ CanRegister
        /\ b \in builders
        /\ UNCHANGED builders
        /\ Apply(o, HistEntry("add_method_advanced", b, {method.name}, method, o))

AddProperty(b, property) ==
    LET o == add_property(b, property, hostLog, boxes)
    IN  /\ CanRegister
        /\ b \in builders
        /\ UNCHANGED builders
        /\ Apply(o, HistEntry("add_property", b, {property.name}, property, o))

AddSignal(b, signal) ==
    LET o == add_signal(b, signal, hostLog, boxes)
    IN  /\ CanRegister
        /\ b \in builders
        /\ UNCHANGED builders
        /\ Apply(o, HistEntry("add_signal", b, {signal.name}, signal, o))

----------------------------------------------------------------------------
(* Spec: the registration operations in any order *)

Handles == {"h1", "h2"}

ClassDescs ==
    { [name |-> n, base_class |-> bc, constructor |-> "ctor", destructor |-> "dtor"] :
        <<n, bc>> \in { <<<<"A">>, <<"N">>>>, <<<<"B">>, <<"N">>>>,
                        <<<<"A", NUL, "B">>, <<"N">>>>, <<<<"A">>, <<"N", NUL>>>> } }

MethodNames == { <<"m">>, <<"m", NUL, "x">> }

ScriptMethods ==
    { SugarMethod(n, "f1") : n \in MethodNames }
    \cup { [name |-> <<"m">>, method_ptr |-> "None", rpc_mode |-> "Remote",
            method_data |-> 7, free_func |-> "user_free"] }

UnitAccessor == [kind |-> "unit", closure |-> "none"]
SetX == [kind |-> "closure", closure |-> "set_x"]
GetX == [kind |-> "closure", closure |-> "get_x"]

NoHint == [kind |-> "None", start |-> 0, end |-> 0, step |-> 0, slider |-> FALSE,
           values |-> <<>>]

Prop(name, setter, getter, hint, ua, ub) ==
    [name |-> name, setter |-> setter, getter |-> getter,
     default |-> [rust |-> "i64", v |-> 0],
     hint |-> hint,
     usage |-> PropertyUsage_union(UsageBits(ua), UsageBits(ub)),
     usage_of |-> {ua, ub}]

RegProperties ==
    { Prop(<<"x">>, UnitAccessor, UnitAccessor, NoHint, "DEFAULT", "DEFAULT"),
      Prop(<<"x">>, SetX, GetX, NoHint, "DEFAULT", "DEFAULT"),
      Prop(<<"x", NUL>>, SetX, GetX, NoHint, "NOEDITOR", "NOEDITOR") }

Signals == { [name |-> <<"s">>], [name |-> <<"s", NUL, "g">>] }

AddClassOp ==
    /\ Len(hist) < MaxOps
    /\ \E h \in Handles, d \in ClassDescs : AddClass(h, d)

AddMethodOp ==
    /\ Len(hist) < MaxOps
    /\ \E b \in builders, n \in MethodNames : AddMethod(b, n, "f1")

AddMethodAdvancedOp ==
    /\ Len(hist) < MaxOps
    /\ \E b \in builders, m \in ScriptMethods : AddMethodAdvanced(b, m)

AddPropertyOp ==
    /\ Len(hist) < MaxOps
    /\ \E b \in builders, p \in RegProperties : AddProperty(b, p)

AddSignalOp ==
    /\ Len(hist) < MaxOps
    /\ \E b \in builders, s \in Signals : AddSignal(b, s)

Next == AddClassOp \/ AddMethodOp \/ AddMethodAdvancedOp \/ AddPropertyOp \/ AddSignalOp

Spec == Init /\ [][Next]_vars

----------------------------------------------------------------------------
(* SpecProperty: one class, and add_property over the hints and usage unions *)

RangeHint(start, end, step, slider) ==
    [kind |-> "Range", start |-> start, end |-> end, step |-> step, slider |-> slider,
     values |-> <<>>]

ListHint(kind, values) ==
    [kind |-> kind, start |-> 0, end |-> 0, step |-> 0, slider |-> FALSE,
     values |-> values]

HintRanges == { <<0, 1000, 10>>, <<-15, 5, 1>>, <<0, 10, 5>> }

HintLists == { <<>>, <<<<"A">>, <<"B">>, <<"C">>>>, <<<<"B", "A">>, <<"A">>>> }

Hints ==
    { NoHint, ListHint("NodePathToEditedNode", <<>>) }
    \cup { RangeHint(r[1], r[2], r[3], sl) : r \in HintRanges, sl \in BOOLEAN }
    \cup { ListHint(k, vs) : k \in {"Enum", "Flags"}, vs \in HintLists }

UsageNames ==
    { "STORAGE", "EDITOR", "NETWORK", "EDITOR_HELPER", "CHECKABLE", "CHECKED",
      "INTERNATIONALIZED", "GROUP", "CATEGORY", "STORE_IF_NONZERO", "STORE_IF_NONONE",
      "NO_INSTANCE_STATE", "RESTART_IF_CHANGED", "SCRIPT_VARIABLE", "STORE_IF_NULL",
      "ANIMATE_AS_TRIGGER", "UPDATE_ALL_IF_MODIFIED", "DEFAULT", "DEFAULT_INTL",
      "NOEDITOR" }

UnionOperands ==
    { "EDITOR", "INTERNATIONALIZED", "UPDATE_ALL_IF_MODIFIED", "DEFAULT",
      "DEFAULT_INTL", "NOEDITOR" }

WideProperties ==
    { Prop(n, UnitAccessor, UnitAccessor, h, u[1], u[2]) :
        n \in { <<"x">>, <<"y", "z">> }, h \in Hints,
        u \in { <<"DEFAULT", "DEFAULT">>, <<"NOEDITOR", "EDITOR">> } }
    \cup { Prop(<<"x">>, UnitAccessor, UnitAccessor, NoHint, ua, ub) :
             ua \in UsageNames, ub \in UnionOperands }

TheClass == [name |-> <<"A">>, base_class |-> <<"N">>,
             constructor |-> "ctor", destructor |-> "dtor"]

AddTheClass ==
    /\ builders = {}
    /\ AddClass("h1", TheClass)

AddWideProperty ==
    /\ Len(hist) < 1 + MaxProps
    /\ \E b \in builders, p \in WideProperties : AddProperty(b, p)

NextProperty == AddTheClass \/ AddWideProperty

SpecProperty == Init /\ [][NextProperty]_vars

----------------------------------------------------------------------------
(* Claims about registration *)

IsOp(i, op) == hist[i].op = op

Requested(i) == hist[i].at # 0

Request(i) == hostLog[hist[i].at]

PropertyOps == { i \in 1..Len(hist) : IsOp(i, "add_property") /\ Requested(i) }

\* C2: an operation given a name (or base-class name) with an embedded null
\* byte fails when the name value is built, so it makes no registration
\* request, and no text with an embedded null is handed to the host.
C2_NulNameNeverRegisters ==
    \A i \in 1..Len(hist) :
        (\E n \in hist[i].names : HasNul(n)) => hist[i].panicked /\ ~Requested(i)

\* The part of C2 the CString-based operations do satisfy.
C2_CStringOpsRejectNul ==
    \A i \in 1..Len(hist) :
        (hist[i].op # "add_signal" /\ \E n \in hist[i].names : HasNul(n))
            => hist[i].panicked /\ ~Requested(i)

\* C8: the request add_method(name, f) makes is the one add_method_advanced
\* makes for ScriptMethod{name, Some(f), Disabled, null, None}, against the
\* builder's handle and class name, with the remote-call mode disabled.
C8_AddMethodIsSugar ==
    \A i \in 1..Len(hist) :
        IsOp(i, "add_method") =>
            LET b == hist[i].builder
                sm == [name |-> hist[i].arg.name, method_ptr |-> hist[i].arg.method,
                       rpc_mode |-> "Disabled", method_data |-> NULL,
                       free_func |-> "None"]
                adv == add_method_advanced(b, sm, <<>>, <<>>)
            IN  /\ hist[i].panicked = adv.panicked
                /\ Requested(i) = (adv.log # <<>>)
                /\ Requested(i) =>
                     /\ Request(i) = adv.log[1]
                     /\ Request(i).entry = "register_method"
                     /\ Request(i).handle = b.init_handle
                     /\ Append(Request(i).class, NUL) = b.class_name
                     /\ Request(i).attr.rpc_type = "GODOT_METHOD_RPC_MODE_DISABLED"
                     /\ Request(i).method.method = hist[i].arg.method
                     /\ Request(i).method.method_data = NULL
                     /\ Request(i).method.free_func = "None"
                /\ \A j \in 1..Len(hist) :
                     (IsOp(j, "add_method_advanced") /\ hist[j].builder = b
                        /\ hist[j].arg = sm /\ Requested(i) /\ Requested(j))
                        => Request(j) = Request(i)

C8_Witness ==
    \E i, j \in 1..Len(hist) :
        /\ IsOp(i, "add_method") /\ Requested(i)
        /\ IsOp(j, "add_method_advanced") /\ Requested(j)
        /\ hist[j].builder = hist[i].builder
        /\ hist[j].arg.name = hist[i].arg.name
        /\ hist[j].arg.method_ptr = hist[i].arg.method
        /\ hist[j].arg.method_data = NULL

IsClassRequestFor(r, handle, class) ==
    r.entry = "register_class" /\ r.handle = handle /\ r.class = class

\* What holds of the host's log and the builders in every state.
C10_State ==
    /\ \A i \in 1..Len(hostLog) :
         hostLog[i].entry # "register_class" =>
            \E j \in 1..(i - 1) :
                IsClassRequestFor(hostLog[j], hostLog[i].handle, hostLog[i].class)
    /\ \A b \in builders :
         \E j \in 1..Len(hostLog) :
            IsClassRequestFor(hostLog[j], b.init_handle, HostReadCStr(b.class_name))
    /\ \A i \in 1..Len(hist) :
         (~IsOp(i, "add_class") /\ Requested(i)) =>
            /\ Request(i).handle = hist[i].builder.init_handle
            /\ Request(i).class = HostReadCStr(hist[i].builder.class_name)

\* What every step keeps: builders are only added, and only by a class request.
C10_Step ==
    /\ builders \subseteq builders'
    /\ (Len(hostLog') > Len(hostLog)
          /\ hostLog'[Len(hostLog')].entry # "register_class") => builders' = builders
    /\ (builders' # builders) =>
          /\ Len(hostLog') = Len(hostLog) + 1
          /\ hostLog'[Len(hostLog')].entry = "register_class"

\* C10: every member request carries the handle and class name of an earlier
\* class request made by add_class, a builder exists only after its class
\* request, and member registrations leave the builders as they are.
C10_MembersTargetRegisteredClass == [](C10_State) /\ [][C10_Step]_vars

C10_Witness ==
    /\ Len(hostLog) = 3
    /\ hostLog[1].entry = "register_class"
    /\ hostLog[2].entry = "register_class"
    /\ hostLog[3].entry = "register_property"
    /\ hostLog[3].class = hostLog[1].class
    /\ hostLog[3].handle = hostLog[1].handle
    /\ hostLog[2].class # hostLog[1].class

RECURSIVE Bit(_, _)
Bit(x, i) == IF i = 0 THEN x % 2 = 1 ELSE Bit(x \div 2, i - 1)

BitSet(x) == { i \in 0..(UsageWidth - 1) : Bit(x, i) }

Txt_0_100_1 == <<"0", ",", "1", "0", "0", ",", "1">>
Txt_m15_05_01 == <<"-", "1", ".", "5", ",", "0", ".", "5", ",", "0", ".", "1">>

\* C7: the hint text sent with a property depends on the hint only:
\* "<start>,<end>,<step>" for a range, with ",slider" appended when the slider
\* flag is set; the values joined by single commas, in order, for Enum and
\* Flags; a defined empty string, never a null one, for None and
\* NodePathToEditedNode; and the hint enum sent is the one of the hint kind.
C7_HintText ==
    \A i \in PropertyOps :
        LET h == hist[i].arg.hint
            hs == Request(i).attr.hint_string
            plain == FmtF64(h.start) \o <<",">> \o FmtF64(h.end) \o <<",">>
                     \o FmtF64(h.step)
        IN  /\ hs.null = FALSE
            /\ h.kind = "Range" /\ ~h.slider => hs.chars = plain
            /\ h.kind = "Range" /\ h.slider => hs.chars = plain \o SliderSuffix
            /\ (h.kind = "Range" /\ <<h.start, h.end, h.step>> = <<0, 1000, 10>>)
                 => hs.chars = Txt_0_100_1
                               \o (IF h.slider THEN SliderSuffix ELSE <<>>)
            /\ (h.kind = "Range" /\ <<h.start, h.end, h.step>> = <<-15, 5, 1>>)
                 => hs.chars = Txt_m15_05_01
                               \o (IF h.slider THEN SliderSuffix ELSE <<>>)
            /\ (h.kind \in {"Enum", "Flags"}
                  /\ h.values = <<<<"A">>, <<"B">>, <<"C">>>>)
                 => hs.chars = <<"A", ",", "B", ",", "C">>
            /\ (h.kind \in {"Enum", "Flags"}
                  /\ h.values = <<<<"B", "A">>, <<"A">>>>)
                 => hs.chars = <<"B", "A", ",", "A">>
            /\ (h.kind \in {"Enum", "Flags"} /\ h.values = <<>>) => hs.chars = <<>>
            /\ h.kind \in {"None", "NodePathToEditedNode"} => hs.chars = <<>>
            /\ Request(i).attr.hint =
                 CASE h.kind = "None" -> "GODOT_PROPERTY_HINT_NONE"
                   [] h.kind = "Range" -> "GODOT_PROPERTY_HINT_RANGE"
                   [] h.kind = "Enum" -> "GODOT_PROPERTY_HINT_ENUM"
                   [] h.kind = "Flags" -> "GODOT_PROPERTY_HINT_FLAGS"
                   [] h.kind = "NodePathToEditedNode" ->
                        "GODOT_PROPERTY_HINT_NODE_PATH_TO_EDITED_NODE"

C7_Witness ==
    \E i \in PropertyOps :
        /\ hist[i].arg.hint.kind = "Range"
        /\ hist[i].arg.hint.slider
        /\ hist[i].arg.hint.start < 0
        /\ hist[i].arg.name = <<"y", "z">>
        /\ Request(i).attr.hint_string.chars = Txt_m15_05_01 \o SliderSuffix

\* C9: the usage bits sent to the host are exactly the bits of the operands of
\* the union (none cleared, none added), DEFAULT is STORAGE, EDITOR and NETWORK,
\* DEFAULT_INTL adds INTERNATIONALIZED, NOEDITOR is STORAGE and NETWORK without
\* EDITOR, and to_sys leaves the value as it is.
C9_UsageBits ==
    \A i \in PropertyOps :
        LET p == hist[i].arg
            sent == BitSet(Request(i).attr.usage)
        IN  /\ Request(i).attr.usage = p.usage
            /\ sent = UNION { BitSet(UsageBits(n)) : n \in p.usage_of }
            /\ p.usage_of = {"DEFAULT"} =>
                 sent = BitSet(STORAGE) \cup BitSet(EDITOR) \cup BitSet(NETWORK)
            /\ p.usage_of = {"DEFAULT_INTL"} =>
                 sent = BitSet(DEFAULT) \cup BitSet(INTERNATIONALIZED)
            /\ p.usage_of = {"NOEDITOR"} =>
                 /\ sent = BitSet(STORAGE) \cup BitSet(NETWORK)
                 /\ sent \cap BitSet(EDITOR) = {}
            /\ \A n \in p.usage_of :
                 n \notin {"DEFAULT", "DEFAULT_INTL", "NOEDITOR"}
                    => Cardinality(BitSet(UsageBits(n))) = 1

C9_Witness ==
    \E i \in PropertyOps :
        /\ hist[i].arg.usage_of = {"DEFAULT_INTL", "NOEDITOR"}
        /\ BitSet(Request(i).attr.usage) = {0, 1, 2, 6}

----------------------------------------------------------------------------
(* The host at run time: property access through the registered bundles, and
   teardown *)

PropertyRequests == { i \in 1..Len(hostLog) : hostLog[i].entry = "register_property" }

Bundle(i, which) == IF which = "set" THEN hostLog[i].set ELSE hostLog[i].get

BundleIds == PropertyRequests \X {"set", "get"}

Top(t) == frames[t][Len(frames[t])]

SetTop(t, f) == [frames EXCEPT ![t][Len(frames[t])] = f]

HostValues ==
    { [type |-> "GODOT_VARIANT_TYPE_INT", value |-> 1],
      [type |-> "GODOT_VARIANT_TYPE_INT", value |-> 2],
      [type |-> "GODOT_VARIANT_TYPE_STRING", value |-> 0] }

Called(bundleFunc, data) ==
    lastCall' = [seq |-> lastCall.seq + 1, func |-> bundleFunc, data |-> data]

\* The host calls the set or get function of property i on thread t: from the
\* host's own loop, or from inside a user closure that called back into it.
Invoke(t, i, which, val) ==
    LET bundle == Bundle(i, which)
    IN  /\ ~crashed
        /\ torn = {}
        /\ nInvokes < MaxInvokes
        /\ Len(frames[t]) < MaxDepth
        /\ frames[t] # <<>> => Top(t).pc = "call"
        /\ nInvokes' = nInvokes + 1
        /\ Called(bundle.func, bundle.method_data)
        /\ IF bundle.func = "empty_setter"
           THEN /\ cellVal' = empty_setter(cellVal, val)
                /\ UNCHANGED <<frames, lastRet>>
           ELSE IF bundle.func = "empty_getter"
           THEN /\ lastRet' = empty_getter
                /\ UNCHANGED <<frames, cellVal>>
           ELSE /\ frames' = [frames EXCEPT ![t] =
                       Append(@, [Frame(which, bundle.method_data,
                                        IF which = "set" THEN val ELSE Variant_new)
                                  EXCEPT !.nested = (frames[t] # <<>>)])]
                /\ UNCHANGED <<cellVal, lastRet>>
        /\ UNCHANGED <<regVars, builders, cellBorrow, errLog, crashed, torn, done>>

Running(t) == ~crashed /\ frames[t] # <<>>

\* borrow_mut, first half: read the RefCell's borrow flag.
BorrowRead(t) ==
    /\ Running(t)
    /\ Top(t).pc = "borrow"
    /\ frames' = SetTop(t, [Top(t) EXCEPT !.seen = cellBorrow, !.pc = "acquire"])
    /\ UNCHANGED <<regVars, builders, cellVal, cellBorrow, errLog, crashed, torn,
                   nInvokes, lastRet, lastCall, done>>

\* borrow_mut, second half: set the flag when the value read was UNUSED, else
\* panic ("already borrowed").
borrow_mut_acquire(f, cell) ==
    IF f.seen = "UNUSED"
    THEN [frame |-> [f EXCEPT !.holds = TRUE, !.entryVal = cell,
                               !.pc = IF f.kind = "set" THEN "convert" ELSE "call"],
          flag |-> "WRITING", panicked |-> FALSE]
    ELSE [frame |-> [f EXCEPT !.pc = "panicked"], flag |-> cellBorrow,
          panicked |-> TRUE]

BorrowAcquire(t) ==
    LET r == borrow_mut_acquire(Top(t), cellVal)
    IN  /\ Running(t)
        /\ Top(t).pc = "acquire"
        /\ frames' = SetTop(t, r.frame)
        /\ cellBorrow' = r.flag
        /\ crashed' = r.panicked
        /\ UNCHANGED <<regVars, builders, cellVal, errLog, torn, nInvokes, lastRet,
                       lastCall, done>>

\* The stub calling the closure whatever the conversion gave.
setter_invoke_always_calls(f) == [f EXCEPT !.pc = "call"]

\* The stub returning after a successful conversion without the call.
setter_invoke_skips_call(f) ==
    IF from_variant(f.val).some THEN [f EXCEPT !.pc = "ret"]
    ELSE [f EXCEPT !.pc = "error"]

\* The setter stub after the borrow: T::from_variant, then the closure or the
\* error branch.
setter_invoke_convert(f) ==
    IF from_variant(f.val).some THEN [f EXCEPT !.pc = "call"]
    ELSE [f EXCEPT !.pc = "error"]

SetterConvert(t) ==
    /\ Running(t)
    /\ Top(t).kind = "set" /\ Top(t).pc = "convert"
    /\ frames' = SetTop(t, setter_invoke_convert(Top(t)))
    /\ UNCHANGED <<regVars, builders, cellVal, cellBorrow, errLog, crashed, torn,
                   nInvokes, lastRet, lastCall, done>>

\* func(&mut *rust_ty, val): the closure behind the data pointer runs.
SetterCall(t) ==
    /\ Running(t)
    /\ Top(t).kind = "set" /\ Top(t).pc = "call"
    /\ cellVal' = ApplySetter(boxes[Top(t).data].closure, cellVal,
                              from_variant(Top(t).val).v)
    /\ frames' = SetTop(t, [Top(t) EXCEPT !.calls = @ + 1, !.pc = "ret"])
    /\ UNCHANGED <<regVars, builders, cellBorrow, errLog, crashed, torn, nInvokes,
                   lastRet, lastCall, done>>

\* godot_error!("Incorrect type passed to property")
SetterLogError(t) ==
    /\ Running(t)
    /\ Top(t).kind = "set" /\ Top(t).pc = "error"
    /\ errLog' = errLog + 1
    /\ frames' = SetTop(t, [Top(t) EXCEPT !.logged = @ + 1, !.pc = "ret"])
    /\ UNCHANGED <<regVars, builders, cellVal, cellBorrow, crashed, torn, nInvokes,
                   lastRet, lastCall, done>>

\* let ret = func(&mut *rust_ty); ret.to_variant()
GetterCall(t) ==
    /\ Running(t)
    /\ Top(t).kind = "get" /\ Top(t).pc = "call"
    /\ frames' = SetTop(t, [Top(t) EXCEPT
                    !.calls = @ + 1,
                    !.ret = to_variant(ApplyGetter(boxes[Top(t).data].closure, cellVal)),
                    !.pc = "ret"])
    /\ UNCHANGED <<regVars, builders, cellVal, cellBorrow, errLog, crashed, torn,
                   nInvokes, lastRet, lastCall, done>>

\* The end of the stub's block: the RefMut is dropped, the stub returns.
Return(t) ==
    /\ Running(t)
    /\ Top(t).pc = "ret"
    /\ cellBorrow' = "UNUSED"
    /\ frames' = [frames EXCEPT ![t] = SubSeq(@, 1, Len(@) - 1)]
    /\ lastRet' = IF Top(t).kind = "get" THEN Top(t).ret ELSE lastRet
    /\ done' = [Top(t) EXCEPT !.pc = "returned", !.holds = FALSE]
    /\ UNCHANGED <<regVars, builders, cellVal, errLog, crashed, torn, nInvokes,
                   lastCall>>

\* Teardown of the class slot: the host calls the free function of one bundle
\* it has not freed yet, on that bundle's data pointer.
HostFree(id) ==
    /\ ~crashed
    /\ \A t \in Threads : frames[t] = <<>>
    /\ id \in BundleIds \ torn
    /\ torn' = torn \cup {id}
    /\ boxes' = CallFree(boxes, Bundle(id[1], id[2]))
    /\ Called(Bundle(id[1], id[2]).free_func, Bundle(id[1], id[2]).method_data)
    /\ UNCHANGED <<hostLog, builders, hist, cellVal, cellBorrow, frames, errLog,
                   crashed, nInvokes, lastRet, done>>

----------------------------------------------------------------------------
(* SpecAccess: one class, its properties, then the host using them from one
   thread (re-entrantly) and tearing the class down.  SpecThreads: the same
   with two host threads. *)

AccProperties ==
    { Prop(<<"x">>, SetX, GetX, NoHint, "DEFAULT", "DEFAULT"),
      Prop(<<"u">>, UnitAccessor, UnitAccessor, NoHint, "DEFAULT", "DEFAULT") }

AddAccProperty ==
    /\ Cardinality(PropertyRequests) < MaxAccProps
    /\ \E b \in builders, p \in AccProperties : AddProperty(b, p)

InvokeOn(T) ==
    \E t \in T, i \in PropertyRequests :
        \/ \E val \in HostValues : Invoke(t, i, "set", val)
        \/ Invoke(t, i, "get", Variant_new)

HostInvoke == InvokeOn({"t1"})
StepBorrowRead == BorrowRead("t1")
StepBorrowAcquire == BorrowAcquire("t1")
StepSetterConvert == SetterConvert("t1")
StepSetterCall == SetterCall("t1")
StepSetterLogError == SetterLogError("t1")
StepGetterCall == GetterCall("t1")
StepReturn == Return("t1")
Teardown == \E id \in BundleIds : HostFree(id)

NextAccess ==
    \/ AddTheClass \/ AddAccProperty \/ HostInvoke
    \/ StepBorrowRead \/ StepBorrowAcquire \/ StepSetterConvert \/ StepSetterCall
    \/ StepSetterLogError \/ StepGetterCall \/ StepReturn \/ Teardown

SpecAccess == Init /\ [][NextAccess]_vars

ThreadInvoke == InvokeOn(Threads)
ThreadBorrowRead == \E t \in Threads : BorrowRead(t)
ThreadBorrowAcquire == \E t \in Threads : BorrowAcquire(t)
ThreadSetterConvert == \E t \in Threads : SetterConvert(t)
ThreadSetterCall == \E t \in Threads : SetterCall(t)
ThreadSetterLogError == \E t \in Threads : SetterLogError(t)
ThreadGetterCall == \E t \in Threads : GetterCall(t)
ThreadReturn == \E t \in Threads : Return(t)

NextThreads ==
    \/ AddTheClass \/ AddAccProperty \/ ThreadInvoke
    \/ ThreadBorrowRead \/ ThreadBorrowAcquire \/ ThreadSetterConvert
    \/ ThreadSetterCall \/ ThreadSetterLogError \/ ThreadGetterCall \/ ThreadReturn
    \/ Teardown

SpecThreads == Init /\ [][NextThreads]_vars

----------------------------------------------------------------------------
(* Claims about the accessors *)

FramesOf(t) == { frames[t][k] : k \in 1..Len(frames[t]) }

InFlight == UNION { FramesOf(t) : t \in Threads }

Positions == { <<t, k>> \in Threads \X (1..(MaxDepth + 1)) : k <= Len(frames[t]) }

Holders == { p \in Positions : frames[p[1]][p[2]].holds }

ClosureBundles == { id \in BundleIds : Bundle(id[1], id[2]).method_data # NULL }

Convertible(f) == from_variant(f.val).some

\* C1: every closure accessor is boxed once at registration, its data pointer
\* is its own and is paired with the free function of its kind, no invocation
\* runs on a pointer whose free function has run, no box is freed twice, and
\* once the host has torn the class down every box has been freed exactly once.
C1_FreedExactlyOnce ==
    /\ \A i \in PropertyOps :
         /\ (hist[i].arg.setter.kind = "closure") = (Request(i).set.method_data # NULL)
         /\ (hist[i].arg.getter.kind = "closure") = (Request(i).get.method_data # NULL)
    /\ Cardinality(ClosureBundles) = Len(boxes)
    /\ { Bundle(id[1], id[2]).method_data : id \in ClosureBundles } = DOMAIN boxes
    /\ \A id \in ClosureBundles :
         LET b == Bundle(id[1], id[2])
         IN  /\ b.func = (IF id[2] = "set" THEN "setter_invoke" ELSE "getter_invoke")
             /\ b.free_func =
                  (IF id[2] = "set" THEN "setter_free_func" ELSE "getter_free_func")
             /\ boxes[b.method_data].frees = (IF id \in torn THEN 1 ELSE 0)
    /\ \A f \in InFlight : boxes[f.data].frees = 0
    /\ \A a \in DOMAIN boxes : boxes[a].frees <= 1
    /\ (torn = BundleIds /\ BundleIds # {}) => \A a \in DOMAIN boxes : boxes[a].frees = 1

C1_Witness ==
    /\ BundleIds # {}
    /\ torn = BundleIds
    /\ Len(boxes) >= 2
    /\ done.kind = "set" /\ done.calls = 1
    /\ \A a \in DOMAIN boxes : boxes[a].frees = 1

\* C3 as stated: every closure-setter invocation with a value that does not
\* convert returns normally, without a closure call, with one log entry and
\* the instance as it was.
C3_NonConvertibleNeverCrashes ==
    /\ \A f \in InFlight :
         (f.kind = "set" /\ ~Convertible(f)) => f.pc # "panicked" /\ f.calls = 0
    /\ (done.kind = "set" /\ ~Convertible(done)) => done.calls = 0 /\ done.logged = 1

\* C3, amended: a closure-setter invocation with a value that does not convert,
\* started while no other invocation on the instance is in flight, acquires the
\* borrow, leaves the instance as it was, does not call the closure, writes
\* exactly one log entry and returns normally.
C3_NonConvertibleIsLoggedNoOp ==
    /\ \A f \in InFlight :
         (f.kind = "set" /\ ~Convertible(f) /\ ~f.nested) =>
            /\ ~crashed
            /\ f.pc \in {"borrow", "acquire", "convert", "error", "ret"}
            /\ f.calls = 0
            /\ f.holds => cellVal = f.entryVal
            /\ f.logged = (IF f.pc = "ret" THEN 1 ELSE 0)
            /\ f.pc = "acquire" => f.seen = "UNUSED"
    /\ (done.kind = "set" /\ ~Convertible(done) /\ ~done.nested) =>
            /\ done.calls = 0
            /\ done.logged = 1
            /\ errLog >= 1
            /\ (InFlight = {} => cellBorrow = "UNUSED")
            /\ (InFlight = {} /\ ~crashed /\ lastCall.func = "setter_invoke")
                  => cellVal = done.entryVal

C3_Witness ==
    /\ done.kind = "set" /\ ~Convertible(done) /\ done.pc = "returned"
    /\ lastCall.func = "setter_invoke"
    /\ InFlight = {}
    /\ errLog = 1
    /\ cellVal = 2

\* C4: at most one invocation holds the mutable borrow of the instance, the
\* flag is WRITING exactly while one holds it, and an invocation that enters
\* while another holds the borrow does not acquire it and calls no closure.
C4_ExclusiveBorrow ==
    /\ Cardinality(Holders) <= 1
    /\ (cellBorrow = "WRITING") = (Holders # {})
    /\ \A f \in InFlight : f.pc = "panicked" => ~f.holds /\ f.calls = 0

\* The same under one host thread, where re-entry is recursive only.
C4_Recursive ==
    /\ C4_ExclusiveBorrow
    /\ \A f \in InFlight : (f.nested /\ f.pc \notin {"borrow", "acquire"})
                              => f.pc = "panicked" /\ crashed

C5_UnitBundles ==
    \A i \in PropertyOps :
        /\ hist[i].arg.setter.kind = "unit" =>
             Request(i).set = [func |-> "empty_setter", method_data |-> NULL,
                               free_func |-> "empty_free_func"]
        /\ hist[i].arg.getter.kind = "unit" =>
             Request(i).get = [func |-> "empty_getter", method_data |-> NULL,
                               free_func |-> "empty_free_func"]

C5_UnitStep ==
    (lastCall'.seq # lastCall.seq
       /\ lastCall'.func \in {"empty_setter", "empty_getter", "empty_free_func"}) =>
        /\ lastCall'.data = NULL
        /\ cellVal' = cellVal
        /\ cellBorrow' = cellBorrow
        /\ boxes' = boxes
        /\ frames' = frames
        /\ errLog' = errLog
        /\ crashed' = crashed
        /\ lastCall'.func = "empty_getter" =>
             lastRet' = [type |-> "GODOT_VARIANT_TYPE_NIL", value |-> 0]

\* C5: a property registered with () as setter or getter carries the null
\* data pointer and the empty stubs; a host call of an empty stub leaves the
\* instance, its borrow flag, the heap, the log and the invocations in flight
\* as they are, and the empty getter returns the nil value.
C5_UnitAccessorsAreInert == [](C5_UnitBundles) /\ [][C5_UnitStep]_vars

C5_Witness ==
    /\ lastCall.func = "empty_free_func"
    /\ nInvokes = MaxInvokes
    /\ cellVal = 2
    /\ lastRet.type = "GODOT_VARIANT_TYPE_NIL"
    /\ \E id \in BundleIds \ torn : Bundle(id[1], id[2]).func = "empty_setter"

\* C6 as stated: every closure-setter invocation with a convertible value
\* calls the closure (it never ends at the borrow) exactly once.
C6_ConvertibleAlwaysCalls ==
    /\ \A f \in InFlight :
         (f.kind = "set" /\ Convertible(f)) =>
            f.pc # "panicked" /\ f.calls = (IF f.pc = "ret" THEN 1 ELSE 0)
    /\ (done.kind = "set" /\ Convertible(done)) => done.calls = 1

\* The invocations that hold the borrow, and the one that returned last.
C6_State ==
    /\ \A f \in InFlight :
         (f.kind = "set" /\ Convertible(f) /\ f.holds) =>
            /\ f.pc \in {"convert", "call", "ret"}
            /\ f.calls = (IF f.pc = "ret" THEN 1 ELSE 0)
            /\ f.logged = 0
            /\ f.pc = "ret" => cellVal = f.val.value
            /\ boxes[f.data].frees = 0
    /\ (done.kind = "set" /\ Convertible(done)) =>
            /\ done.calls = 1
            /\ done.logged = 0
            /\ boxes[done.data].closure = "set_x"
            /\ (torn = {} => boxes[done.data].frees = 0)

\* The heap is untouched while invocations run; the instance changes only in
\* the closure call of a setter that holds the borrow.
C6_Step ==
    /\ (frames' # frames) => (boxes' = boxes /\ torn' = torn)
    /\ (cellVal' # cellVal) =>
          \E t \in Threads :
             /\ frames[t] # <<>> /\ Len(frames'[t]) = Len(frames[t])
             /\ Top(t).kind = "set" /\ Top(t).pc = "call" /\ Top(t).holds
             /\ frames'[t][Len(frames[t])].calls = Top(t).calls + 1
             /\ cellVal' = Top(t).val.value

\* C6, amended: a closure-setter invocation with a convertible value that
\* acquires the borrow (none in flight on the instance) calls the closure
\* exactly once with the converted value, so the instance changes only in that
\* one call; no invocation step allocates or frees a box, and the box behind
\* the data pointer is live after the call.
C6_ConvertibleCallsOnce == [](C6_State) /\ [][C6_Step]_vars

C6_Witness ==
    /\ done.kind = "set" /\ Convertible(done) /\ done.calls = 1
    /\ done.val.value = 2 /\ cellVal = 2
    /\ InFlight = {}
    /\ boxes[done.data].frees = 0

====
